---------------------------- MODULE Spec2Model ----------------------------
(***************************************************************************)
(* Model of scripts/build_doctor_directory.py: the text helpers            *)
(* (normalize_whitespace, split_multi_value, looks_like_doctor,            *)
(* infer_specialty) and the scan/merge loop of build_directory.            *)
(*                                                                         *)
(* Python strings are TLA+ strings; a character is a string of length 1.   *)
(***************************************************************************)
EXTENDS Integers, Sequences, FiniteSets, TLC

(***************************************************************************)
(* Bounds of the model.                                                    *)
(***************************************************************************)
MaxRows == 3
MaxLen == 4

(***************************************************************************)
(* Characters.                                                             *)
(***************************************************************************)
CharAt(s, i) == SubSeq(s, i, i)

Chars(s) == {CharAt(s, i) : i \in 1..Len(s)}

\* The printable ASCII characters in code point order: 32 (space) to 95, and
\* 97 to 126.
PrintableLow ==
  " !\"#$%&'()*+,-./0123456789:;<=>?@ABCDEFGHIJKLMNOPQRSTUVWXYZ[\\]^_"
PrintableHigh == "abcdefghijklmnopqrstuvwxyz{|}~"

\* Code point of each character (what sorted() compares and what
\* encode("utf-8") emits for ASCII text).
CodeTable ==
  [ c \in {"\t", "\n", "\f", "\r"} \cup Chars(PrintableLow) \cup Chars(PrintableHigh) |->
      IF c = "\t" THEN 9
      ELSE IF c = "\n" THEN 10
      ELSE IF c = "\f" THEN 12
      ELSE IF c = "\r" THEN 13
      ELSE IF c \in Chars(PrintableLow)
        THEN 31 + (CHOOSE i \in 1..Len(PrintableLow) : CharAt(PrintableLow, i) = c)
      ELSE 96 + (CHOOSE i \in 1..Len(PrintableHigh) : CharAt(PrintableHigh, i) = c) ]

Code(c) == CodeTable[c]

\* str.split() with no argument and the regex class \s: ASCII whitespace.
Whitespace == {" ", "\t", "\n", "\f", "\r"}

\* The regex class \d.
Digits == Chars("0123456789")

UpperChars == "ABCDEFGHIJKLMNOPQRSTUVWXYZ"
LowerChars == "abcdefghijklmnopqrstuvwxyz"

LowerTable ==
  [ c \in Chars(UpperChars) |->
      CharAt(LowerChars, CHOOSE i \in 1..26 : CharAt(UpperChars, i) = c) ]

LowerChar(c) == IF c \in DOMAIN LowerTable THEN LowerTable[c] ELSE c

\* str.lower()
RECURSIVE lower(_)
lower(s) == IF s = "" THEN "" ELSE LowerChar(CharAt(s, 1)) \o lower(Tail(s))

\* needle in haystack (Python's substring test), scanning left to right.
RECURSIVE ContainsFrom(_, _, _)
ContainsFrom(haystack, needle, i) ==
  IF i + Len(needle) - 1 > Len(haystack) THEN FALSE
  ELSE IF SubSeq(haystack, i, i + Len(needle) - 1) = needle THEN TRUE
  ELSE ContainsFrom(haystack, needle, i + 1)

Contains(haystack, needle) == ContainsFrom(haystack, needle, 1)

\* First index at or after i whose character is not in D (Len(s)+1 if none).
RECURSIVE SkipRun(_, _, _)
SkipRun(s, D, i) ==
  IF i > Len(s) THEN i
  ELSE IF CharAt(s, i) \in D THEN SkipRun(s, D, i + 1)
  ELSE i

\* re.split(r"[D]+", s): the pieces between maximal runs of characters of D,
\* empty leading and trailing pieces included.
RECURSIVE ReSplitFrom(_, _, _, _, _)
ReSplitFrom(s, D, i, start, acc) ==
  IF i > Len(s) THEN Append(acc, SubSeq(s, start, Len(s)))
  ELSE IF CharAt(s, i) \in D
    THEN LET j == SkipRun(s, D, i)
         IN  ReSplitFrom(s, D, j, j, Append(acc, SubSeq(s, start, i - 1)))
  ELSE ReSplitFrom(s, D, i + 1, start, acc)

ReSplit(s, D) == ReSplitFrom(s, D, 1, 1, <<>>)

\* [x for x in seq if x]
RECURSIVE NonEmpty(_)
NonEmpty(seq) ==
  IF seq = <<>> THEN <<>>
  ELSE IF Head(seq) = "" THEN NonEmpty(Tail(seq))
  ELSE <<Head(seq)>> \o NonEmpty(Tail(seq))

\* sep.join(seq)
RECURSIVE Join(_, _)
Join(seq, sep) ==
  IF seq = <<>> THEN ""
  ELSE IF Len(seq) = 1 THEN seq[1]
  ELSE seq[1] \o sep \o Join(Tail(seq), sep)

\* s.strip(chars)
RECURSIVE LStrip(_, _)
LStrip(s, D) ==
  IF s = "" THEN ""
  ELSE IF CharAt(s, 1) \in D THEN LStrip(Tail(s), D)
  ELSE s

RECURSIVE RStrip(_, _)
RStrip(s, D) ==
  IF s = "" THEN ""
  ELSE IF CharAt(s, Len(s)) \in D THEN RStrip(SubSeq(s, 1, Len(s) - 1), D)
  ELSE s

Strip(s, D) == RStrip(LStrip(s, D), D)

(***************************************************************************)
(* The keyword tables.                                                     *)
(***************************************************************************)
BLOCK_KEYWORDS ==
  { "hospital", "medical", "clinic", "company", "co.", "est", "contracting",
    "insurance", "drops", "tablet", "capsule", "solution", "syrup", "pharma",
    "laboratory", "lab", "finance", "statement", "analysis", "services",
    "provider", "bupa", "tawnia", "claim", "eligibility", "response",
    "direct", "copy" }

SPECIALTY_KEYWORDS ==
  << <<"cardio", "Cardiology">>,
     <<"derma", "Dermatology">>,
     <<"dermato", "Dermatology">>,
     <<"neuro", "Neurology">>,
     <<"nephro", "Nephrology">>,
     <<"pulmo", "Pulmonology">>,
     <<"gastro", "Gastroenterology">>,
     <<"endo", "Endocrinology">>,
     <<"onco", "Oncology">>,
     <<"pedi", "Pediatrics">>,
     <<"ortho", "Orthopedics">>,
     <<"psy", "Psychiatry">>,
     <<"ophth", "Ophthalmology">>,
     <<"ent", "Otolaryngology">>,
     <<"uro", "Urology">>,
     <<"obst", "Obstetrics & Gynecology">>,
     <<"gyn", "Obstetrics & Gynecology">> >>

(***************************************************************************)
(* The text helpers.                                                       *)
(***************************************************************************)
\* " ".join(value.split())
normalize_whitespace(value) == Join(NonEmpty(ReSplit(value, Whitespace)), " ")

\* The comprehension of split_multi_value: keep the parts whose strip(" ;")
\* is non-empty and normalise each kept part.
RECURSIVE NormalizedParts(_)
NormalizedParts(parts) ==
  IF parts = <<>> THEN <<>>
  ELSE IF Strip(Head(parts), {" ", ";"}) # ""
    THEN <<normalize_whitespace(Strip(Head(parts), {" ", ";"}))>>
           \o NormalizedParts(Tail(parts))
  ELSE NormalizedParts(Tail(parts))

split_multi_value(value) ==
  IF value = "" THEN <<>>
  ELSE NormalizedParts(ReSplit(value, {";", "\n"}))

\* looks_like_doctor accepting a single token.
looks_like_doctor_one_token(name) ==
  IF name = "" THEN FALSE
  ELSE LET normalized == normalize_whitespace(name)
           lowered == lower(normalized)
       IN  IF lowered \in {"doctor name", "name", "(blank)"} THEN FALSE
           ELSE IF \E keyword \in BLOCK_KEYWORDS : Contains(lowered, keyword)
             THEN FALSE
           ELSE IF \E i \in 1..Len(normalized) : CharAt(normalized, i) \in Digits
             THEN FALSE
           ELSE LET tokens ==
                      NonEmpty(ReSplit(normalized, {"-", ","} \cup Whitespace))
                IN  Len(tokens) >= 1

looks_like_doctor(name) ==
  IF name = "" THEN FALSE
  ELSE LET normalized == normalize_whitespace(name)
           lowered == lower(normalized)
       IN  IF lowered \in {"doctor name", "name", "(blank)"} THEN FALSE
           ELSE IF \E keyword \in BLOCK_KEYWORDS : Contains(lowered, keyword)
             THEN FALSE
           ELSE IF \E i \in 1..Len(normalized) : CharAt(normalized, i) \in Digits
             THEN FALSE
           ELSE LET tokens ==
                      NonEmpty(ReSplit(normalized, {"-", ","} \cup Whitespace))
                IN  Len(tokens) >= 2

\* [field.lower() for field in fields if field]
RECURSIVE LoweredFields(_)
LoweredFields(fields) ==
  IF fields = <<>> THEN <<>>
  ELSE IF Head(fields) = "" THEN LoweredFields(Tail(fields))
  ELSE <<lower(Head(fields))>> \o LoweredFields(Tail(fields))

\* The for loop of infer_specialty from pair k on.
RECURSIVE SpecialtyFrom(_, _)
SpecialtyFrom(combined, k) ==
  IF k > Len(SPECIALTY_KEYWORDS) THEN "General Practice"
  ELSE IF Contains(combined, SPECIALTY_KEYWORDS[k][1])
    THEN SPECIALTY_KEYWORDS[k][2]
  ELSE SpecialtyFrom(combined, k + 1)

\* infer_specialty scanning the table from its last pair to its first.
RECURSIVE SpecialtyDownFrom(_, _)
SpecialtyDownFrom(combined, k) ==
  IF k < 1 THEN "General Practice"
  ELSE IF Contains(combined, SPECIALTY_KEYWORDS[k][1])
    THEN SPECIALTY_KEYWORDS[k][2]
  ELSE SpecialtyDownFrom(combined, k - 1)

infer_specialty_last_declared(fields) ==
  SpecialtyDownFrom(Join(LoweredFields(fields), " "), Len(SPECIALTY_KEYWORDS))

infer_specialty(fields) == SpecialtyFrom(Join(LoweredFields(fields), " "), 1)

(***************************************************************************)
(* The identity key.                                                       *)
(***************************************************************************)
HexChars == "0123456789abcdef"

\* s.encode("utf-8") for ASCII text.
Bytes(s) == [i \in 1..Len(s) |-> Code(CharAt(s, i))]

\* A 16-bit running hash of bytes i.. of bs, from h, seeded by the lane k.
RECURSIVE Lane(_, _, _, _)
Lane(bs, k, i, h) ==
  IF i > Len(bs) THEN h
  ELSE Lane(bs, k, i + 1, (h * 31 + bs[i] + k) % 65521)

\* The four hex digits of a 16-bit word.
Hex4(w) ==
  CharAt(HexChars, ((w \div 4096) % 16) + 1)
    \o CharAt(HexChars, ((w \div 256) % 16) + 1)
    \o CharAt(HexChars, ((w \div 16) % 16) + 1)
    \o CharAt(HexChars, (w % 16) + 1)

\* hashlib.sha1(s.encode("utf-8")).hexdigest()[:12].  SHA-1 is abstracted by
\* a deterministic digest of the same shape: 12 hex characters computed from
\* the bytes of s, not injective.
Hash(s) ==
  LET bs == Bytes(s)
  IN  Hex4(Lane(bs, 1, 1, 1)) \o Hex4(Lane(bs, 2, 1, 2))
        \o Hex4(Lane(bs, 3, 1, 3))

(***************************************************************************)
(* Cells, rows and entries.                                                *)
(***************************************************************************)
\* A cell holding the text v, and an empty cell (or one whose value is None).
Cell(v) == [null |-> FALSE, value |-> v]
Null == [null |-> TRUE, value |-> ""]

RECURSIVE ToSet(_)
ToSet(seq) == IF seq = <<>> THEN {} ELSE {Head(seq)} \cup ToSet(Tail(seq))

\* Python's str comparison: lexicographic by code point.
RECURSIVE StrLess(_, _)
StrLess(a, b) ==
  IF b = "" THEN FALSE
  ELSE IF a = "" THEN TRUE
  ELSE IF CharAt(a, 1) = CharAt(b, 1) THEN StrLess(Tail(a), Tail(b))
  ELSE Code(CharAt(a, 1)) < Code(CharAt(b, 1))

\* sorted(S) for a set S of strings.
RECURSIVE sorted(_)
sorted(S) ==
  IF S = {} THEN <<>>
  ELSE LET least == CHOOSE a \in S : \A b \in S \ {a} : StrLess(a, b)
       IN  <<least>> \o sorted(S \ {least})

\* headers.index(column) + 1 (positions are counted from 1 here).
index(hs, column) == CHOOSE k \in 1..Len(hs) :
                       /\ hs[k] = column
                       /\ \A j \in 1..(k - 1) : hs[j] # column

RequiredColumns ==
  << "Doctor Name", "Contact Information", "Credentials/Specialty",
     "Registration Numbers", "Source File" >>

HasColumn(hs, column) == \E k \in 1..Len(hs) : hs[k] = column

\* The text of an optional cell: "" unless the row reaches the column and the
\* cell holds a non-empty value.
CellValue(row, i) ==
  IF i <= Len(row) /\ ~row[i].null /\ row[i].value # ""
    THEN row[i].value
    ELSE ""

\* The three "continue" tests at the top of the loop body.
Skipped(row, ix) ==
  IF ix.name > Len(row) THEN TRUE
  ELSE IF row[ix.name].null THEN TRUE
  ELSE ~looks_like_doctor(normalize_whitespace(row[ix.name].value))

\* key_basis without lowercasing the name.
key_basis_name_as_is(name, reg_numbers, source_value) ==
  name \o "|" \o
    (IF reg_numbers # <<>> THEN reg_numbers[1] ELSE lower(source_value))

key_basis(name, reg_numbers, source_value) ==
  lower(name) \o "|" \o
    (IF reg_numbers # <<>> THEN reg_numbers[1] ELSE lower(source_value))

\* What the loop body computes for a row that is not skipped.
RowFields(row, ix) ==
  LET name == normalize_whitespace(row[ix.name].value)
      contact_value == normalize_whitespace(CellValue(row, ix.contact))
      cred_value == normalize_whitespace(CellValue(row, ix.cred))
      reg_value == normalize_whitespace(CellValue(row, ix.reg))
      source_value == CellValue(row, ix.source)
      reg_numbers == split_multi_value(reg_value)
  IN  [ name |-> name,
        contacts |-> split_multi_value(contact_value),
        credentials |-> split_multi_value(cred_value),
        reg_numbers |-> reg_numbers,
        specialty |-> infer_specialty(<<cred_value, reg_value>>),
        source_value |-> source_value,
        entry_id |-> Hash(key_basis(name, reg_numbers, source_value)) ]

NewEntry(f) ==
  [ id |-> f.entry_id,
    name |-> f.name,
    specialty |-> f.specialty,
    contacts |-> f.contacts,
    credentials |-> f.credentials,
    registrationNumbers |-> f.reg_numbers,
    sourceFile |-> f.source_value ]

\* MergeEntry where the later row's name wins.
MergeEntry_last_name(existing, f) ==
  [ existing EXCEPT
      !.name = f.name,
      !.contacts = sorted(ToSet(existing.contacts) \cup ToSet(f.contacts)),
      !.credentials =
         sorted(ToSet(existing.credentials) \cup ToSet(f.credentials)),
      !.registrationNumbers =
         sorted(ToSet(existing.registrationNumbers) \cup ToSet(f.reg_numbers)) ]

\* MergeEntry replacing the contacts by the later row's instead of uniting.
MergeEntry_replace(existing, f) ==
  [ existing EXCEPT
      !.contacts = sorted(ToSet(f.contacts)),
      !.credentials =
         sorted(ToSet(existing.credentials) \cup ToSet(f.credentials)),
      !.registrationNumbers =
         sorted(ToSet(existing.registrationNumbers) \cup ToSet(f.reg_numbers)) ]

MergeEntry(existing, f) ==
  [ existing EXCEPT
      !.contacts = sorted(ToSet(existing.contacts) \cup ToSet(f.contacts)),
      !.credentials =
         sorted(ToSet(existing.credentials) \cup ToSet(f.credentials)),
      !.registrationNumbers =
         sorted(ToSet(existing.registrationNumbers) \cup ToSet(f.reg_numbers)) ]

\* entry_id in entries
HasId(es, id) == \E k \in 1..Len(es) : es[k].id = id

Position(es, id) == CHOOSE k \in 1..Len(es) : es[k].id = id

\* The loop body up to the computation of entry_id: whether the row is
\* skipped, and what is computed for it if it is not.
Outcome(row, ix) ==
  IF Skipped(row, ix) THEN [skipped |-> TRUE]
  ELSE [skipped |-> FALSE, fields |-> RowFields(row, ix)]

\* LoopBody where a merge re-inserts the entry at the end of the dict.
LoopBody_reinsert(es, o) ==
  IF o.skipped THEN es
  ELSE IF HasId(es, o.fields.entry_id)
    THEN LET k == Position(es, o.fields.entry_id)
         IN  Append(SubSeq(es, 1, k - 1) \o SubSeq(es, k + 1, Len(es)),
                    MergeEntry(es[k], o.fields))
  ELSE Append(es, NewEntry(o.fields))

\* The rest of the loop body, on the dict es kept as the sequence of its
\* values in insertion order: merge into the entry with this id, or insert.
LoopBody(es, o) ==
  IF o.skipped THEN es
  ELSE IF HasId(es, o.fields.entry_id)
    THEN LET k == Position(es, o.fields.entry_id)
         IN  [es EXCEPT ![k] = MergeEntry(es[k], o.fields)]
  ELSE Append(es, NewEntry(o.fields))

\* The whole scan loop over the rows with outcomes os, from the dict es.
RECURSIVE ScanFrom(_, _)
ScanFrom(es, os) ==
  IF os = <<>> THEN es
  ELSE ScanFrom(LoopBody(es, Head(os)), Tail(os))

\* The five header lookups.
ColumnIndex(hs) ==
  [ found |-> TRUE,
    name |-> index(hs, "Doctor Name"),
    contact |-> index(hs, "Contact Information"),
    cred |-> index(hs, "Credentials/Specialty"),
    reg |-> index(hs, "Registration Numbers"),
    source |-> index(hs, "Source File") ]

HasRequiredColumns(hs) == \A j \in 1..5 : HasColumn(hs, RequiredColumns[j])

(***************************************************************************)
(* Inputs.                                                                 *)
(***************************************************************************)
\* The header row of the table, when the file exists.
HeaderRows ==
  { RequiredColumns,
    << "Source File", "Notes", "Doctor Name", "Registration Numbers",
       "Credentials/Specialty", "Contact Information" >>,
    << "Doctor Name", "Contact Information", "Credentials/Specialty",
       "Source File" >>,
    << "Name", "Contact Information", "Credentials/Specialty",
       "Registration Numbers", "Source File" >> }

\* The file system and the document: no file, or a file with a header row.
Environments ==
  { [exists |-> FALSE, headers |-> <<>>] }
  \cup { [exists |-> TRUE, headers |-> hs] : hs \in HeaderRows }

\* Data rows by column: name, contact, credentials, registration, source.
DataRows ==
  { <<Cell("John Doe"), Cell("b;a"), Cell("MD Cardio"), Cell("R2;R1"),
      Cell("F1.csv")>>,
    <<Cell("JOHN  doe"), Cell("a\nc"), Cell("MD Cardio"), Cell("R2"),
      Cell("F1.csv")>>,
    <<Cell("John Doe"), Cell("b;a"), Cell("MD Cardio"), Null, Cell("F1.csv")>>,
    <<Cell("john doe"), Cell("a;a"), Cell("Derma uro"), Null, Cell("f1.CSV")>>,
    <<Cell("John Doe"), Cell("c ; b"), Cell("ENT"), Cell("f1.csv"),
      Cell("F2.csv")>>,
    <<Cell("Jane Roe"), Cell("x"), Null, Cell("R2; R0"), Null>>,
    <<Cell("Al-Amin"), Cell(""), Cell(""), Cell(""), Cell("")>>,
    <<Cell("Acme Medical Clinic"), Cell("x"), Null, Cell("R2"),
      Cell("F1.csv")>>,
    <<Null, Cell("x"), Null, Cell("R2"), Cell("F1.csv")>> }

\* The data row d laid out under the header row hs and cut to n cells.
Layout(d, hs, n) ==
  [ k \in 1..n |->
      IF hs[k] = "Doctor Name" THEN d[1]
      ELSE IF hs[k] = "Contact Information" THEN d[2]
      ELSE IF hs[k] = "Credentials/Specialty" THEN d[3]
      ELSE IF hs[k] = "Registration Numbers" THEN d[4]
      ELSE IF hs[k] = "Source File" THEN d[5]
      ELSE Null ]

ShortRows ==
  { <<Cell("John Doe"), Cell("b;a"), Cell("MD Cardio"), Cell("R2;R1"),
      Cell("F1.csv")>> }

\* The rows a table with header row hs may hold: full rows and ragged ones.
Rows(hs) ==
  { Layout(d, hs, Len(hs)) : d \in DataRows }
  \cup { Layout(d, hs, n) : d \in ShortRows, n \in {0, 2, Len(hs) - 1} }

\* Outcome of every row of every table the scan can run on, computed once.
Outcomes ==
  [ hs \in {h \in HeaderRows : HasRequiredColumns(h)} |->
      [ row \in Rows(hs) |-> Outcome(row, ColumnIndex(hs)) ] ]

(***************************************************************************)
(* State.                                                                  *)
(***************************************************************************)
NoFile == [written |-> FALSE]
NoIndex == [found |-> FALSE]
NoCall == [fn |-> "none"]

VARIABLES
  pc,          \* where the run is: start, load, scan, done, aborted, returned
  fileExists,  \* NUMBERS_PATH.exists()
  headers,     \* the header row of the table
  idx,         \* name_idx .. source_idx
  table,       \* the data rows the loop has consumed, in table order
  entries,     \* the dict entries, as its values in insertion order
  output,      \* the content of OUTPUT_PATH written by this run
  stdout,      \* the lines printed
  error,       \* the exception that ended the run
  call         \* a direct call of a helper: function, argument, result

vars == <<pc, fileExists, headers, idx, table, entries, output, stdout, error,
          call>>

Init ==
  /\ pc = "start"
  /\ \E env \in Environments :
       /\ fileExists = env.exists
       /\ headers = env.headers
  /\ idx = NoIndex
  /\ table = <<>>
  /\ entries = <<>>
  /\ output = NoFile
  /\ stdout = <<>>
  /\ error = "none"
  /\ call = NoCall

(***************************************************************************)
(* build_directory.                                                        *)
(***************************************************************************)
\* CheckInput without the test of NUMBERS_PATH.exists().
CheckInput_unchecked ==
  /\ pc = "start"
  /\ pc' = "load"
  /\ UNCHANGED <<fileExists, headers, idx, table, entries, output, stdout,
                 error, call>>

CheckInput ==
  /\ pc = "start"
  /\ IF fileExists
       THEN pc' = "load" /\ error' = error
       ELSE pc' = "aborted" /\ error' = "FileNotFoundError"
  /\ UNCHANGED <<fileExists, headers, idx, table, entries, output, stdout, call>>

LoadTable ==
  /\ pc = "load"
  /\ IF HasRequiredColumns(headers)
       THEN /\ idx' = ColumnIndex(headers)
            /\ pc' = "scan"
            /\ error' = error
       ELSE /\ idx' = idx
            /\ pc' = "aborted"
            /\ error' = "ValueError"
  /\ UNCHANGED <<fileExists, headers, table, entries, output, stdout, call>>

\* One iteration of the loop, on the next row of the table.
ProcessRow(row) ==
  /\ Len(table) < MaxRows
  /\ table' = Append(table, row)
  /\ entries' = LoopBody(entries, Outcomes[headers][row])
  /\ UNCHANGED <<pc, fileExists, headers, idx, output, stdout, error, call>>

SkipRow ==
  /\ pc = "scan"
  /\ \E row \in Rows(headers) :
       /\ Outcomes[headers][row].skipped
       /\ ProcessRow(row)

InsertRow ==
  /\ pc = "scan"
  /\ \E row \in Rows(headers) :
       /\ ~Outcomes[headers][row].skipped
       /\ ~HasId(entries, Outcomes[headers][row].fields.entry_id)
       /\ ProcessRow(row)

MergeRow ==
  /\ pc = "scan"
  /\ \E row \in Rows(headers) :
       /\ ~Outcomes[headers][row].skipped
       /\ HasId(entries, Outcomes[headers][row].fields.entry_id)
       /\ ProcessRow(row)

WriteOutput ==
  /\ pc = "scan"
  /\ output' = [written |-> TRUE, doctors |-> entries]
  /\ stdout' = Append(stdout, <<"Wrote", Len(entries)>>)
  /\ pc' = "done"
  /\ UNCHANGED <<fileExists, headers, idx, table, entries, error, call>>

(***************************************************************************)
(* Direct calls of the helpers.                                            *)
(***************************************************************************)
RECURSIVE Strings(_, _)
Strings(alphabet, n) ==
  IF n = 0 THEN {""}
  ELSE LET shorter == Strings(alphabet, n - 1)
       IN  shorter \cup {s \o c : s \in shorter, c \in alphabet}

NameArgs ==
  Strings({"a", "L", "b", " ", "-", "1"}, MaxLen)
  \cup { "Dr. Jane Smith", "Acme Medical Clinic", "Paracetamol 500mg",
         "Ernest Hill", "Al-Amin", "Smith,J", "NAME", " name\t", "Doctor  Name",
         "(Blank)", "John\tDoe", " \t ", "Jane", "Jane , - " }

ValueArgs ==
  Strings({"a", ";", "\n", " ", "\t"}, MaxLen)
  \cup { "555-1234; a@x.com\nb@x.com", "MD,  PhD ;; ; FRCS" }

FieldTexts ==
  { "", "MD", "Cardio", "MD Dermatology", "derma then cardio", "patient",
    "ENT", "Neuro-urology", "obst gyn", "PSY", "card io" }

FieldArgs ==
  { <<s>> : s \in Strings({"e", "N", "t", " "}, MaxLen) }
  \cup { <<a, b>> : a \in FieldTexts, b \in FieldTexts }
  \cup { <<>>, <<"", "Derma", "", "cardio">> }

CallLooksLikeDoctor ==
  /\ pc = "start"
  /\ \E name \in NameArgs :
       call' = [ fn |-> "looks_like_doctor", arg |-> name,
                 ret |-> looks_like_doctor(name) ]
  /\ pc' = "returned"
  /\ UNCHANGED <<fileExists, headers, idx, table, entries, output, stdout,
                 error>>

CallSplitMultiValue ==
  /\ pc = "start"
  /\ \E value \in ValueArgs :
       call' = [ fn |-> "split_multi_value", arg |-> value,
                 ret |-> split_multi_value(value) ]
  /\ pc' = "returned"
  /\ UNCHANGED <<fileExists, headers, idx, table, entries, output, stdout,
                 error>>

CallInferSpecialty ==
  /\ pc = "start"
  /\ \E fields \in FieldArgs :
       call' = [ fn |-> "infer_specialty", arg |-> fields,
                 ret |-> infer_specialty(fields) ]
  /\ pc' = "returned"
  /\ UNCHANGED <<fileExists, headers, idx, table, entries, output, stdout,
                 error>>

Next ==
  \/ CheckInput
  \/ LoadTable
  \/ SkipRow
  \/ InsertRow
  \/ MergeRow
  \/ WriteOutput
  \/ CallLooksLikeDoctor
  \/ CallSplitMultiValue
  \/ CallInferSpecialty

Spec == Init /\ [][Next]_vars

(***************************************************************************)
(* History: what the scan did with the rows it has consumed.               *)
(***************************************************************************)
\* Outcome of the i-th data row consumed.
Out(i) == Outcomes[headers][table[i]]

\* The consumed rows that were accepted and carry the id.
RowsOf(id) ==
  {i \in 1..Len(table) : ~Out(i).skipped /\ Out(i).fields.entry_id = id}

Least(S) == CHOOSE i \in S : \A j \in S : i <= j

\* What the loop computed for the first accepted row carrying the id.
FirstFields(id) == Out(Least(RowsOf(id))).fields

StrictlySorted(seq) ==
  \A i \in 1..(Len(seq) - 1) : StrLess(seq[i], seq[i + 1])

(***************************************************************************)
(* C1                                                                      *)
(***************************************************************************)
\* C1: every entry holds, in contacts, credentials and registrationNumbers,
\* the union of the values of all accepted rows with its id consumed so far,
\* and its id, name, specialty and sourceFile are those of the first such row,
\* however many rows with that id were merged later.
C1_MergeUnionsAndKeepsFirst ==
  \A k \in 1..Len(entries) :
    LET e == entries[k]
        rs == RowsOf(e.id)
    IN  /\ rs # {}
        /\ e.id = FirstFields(e.id).entry_id
        /\ e.name = FirstFields(e.id).name
        /\ e.specialty = FirstFields(e.id).specialty
        /\ e.sourceFile = FirstFields(e.id).source_value
        /\ ToSet(e.contacts) = UNION {ToSet(Out(i).fields.contacts) : i \in rs}
        /\ ToSet(e.credentials) =
             UNION {ToSet(Out(i).fields.credentials) : i \in rs}
        /\ ToSet(e.registrationNumbers) =
             UNION {ToSet(Out(i).fields.reg_numbers) : i \in rs}

\* An entry into which a row with another name, specialty, source file and
\* new contacts was merged.
C1_Witness ==
  \E k \in 1..Len(entries) :
    \E i, j \in RowsOf(entries[k].id) :
      /\ i < j
      /\ Out(i).fields.name # Out(j).fields.name
      /\ Out(i).fields.specialty # Out(j).fields.specialty
      /\ Out(i).fields.source_value # Out(j).fields.source_value
      /\ ToSet(Out(j).fields.contacts) \ ToSet(Out(i).fields.contacts) # {}
      /\ ToSet(Out(i).fields.contacts) \ ToSet(Out(j).fields.contacts) # {}

(***************************************************************************)
(* C2                                                                      *)
(***************************************************************************)
\* C2: in the written output every entry's contacts, credentials and
\* registrationNumbers are in strictly ascending order (sorted, no duplicate).
C2_OutputListsSorted ==
  pc = "done" =>
    \A k \in 1..Len(output.doctors) :
      /\ StrictlySorted(output.doctors[k].contacts)
      /\ StrictlySorted(output.doctors[k].credentials)
      /\ StrictlySorted(output.doctors[k].registrationNumbers)

(***************************************************************************)
(* C3                                                                      *)
(***************************************************************************)
\* The outcomes of the consumed rows, and the same with the last two swapped.
Consumed == [i \in 1..Len(table) |-> Out(i)]

LastTwoSwapped ==
  [ i \in 1..Len(table) |->
      IF i = Len(table) - 1 THEN Out(Len(table))
      ELSE IF i = Len(table) THEN Out(Len(table) - 1)
      ELSE Out(i) ]

\* The last two rows consumed were both accepted and produced the same id.
LastTwoShareId ==
  /\ pc = "scan"
  /\ Len(table) >= 2
  /\ ~Out(Len(table) - 1).skipped
  /\ ~Out(Len(table)).skipped
  /\ Out(Len(table) - 1).fields.entry_id = Out(Len(table)).fields.entry_id

EntryOf(es, id) == es[Position(es, id)]

SameMultiValued(e1, e2) ==
  /\ ToSet(e1.contacts) = ToSet(e2.contacts)
  /\ ToSet(e1.credentials) = ToSet(e2.credentials)
  /\ ToSet(e1.registrationNumbers) = ToSet(e2.registrationNumbers)

\* C3 as stated: rows A and B with the same id give the same entry, in all
\* its fields (multi-valued fields as sets), in the order A, B and in the
\* order B, A.
C3_OrderIrrelevantAllFields ==
  LastTwoShareId =>
    LET id == Out(Len(table)).fields.entry_id
        e1 == EntryOf(entries, id)
        e2 == EntryOf(ScanFrom(<<>>, LastTwoSwapped), id)
    IN  /\ e1.id = e2.id
        /\ e1.name = e2.name
        /\ e1.specialty = e2.specialty
        /\ e1.sourceFile = e2.sourceFile
        /\ SameMultiValued(e1, e2)

\* C3 amended: rows A and B with the same id give, in either order, an entry
\* with the same id and the same contacts, credentials and registrationNumbers
\* as sets; when the entry is created by these rows its name, specialty and
\* sourceFile are those of whichever row comes first.
C3_OrderIrrelevantMultiValued ==
  LastTwoShareId =>
    LET n == Len(table)
        id == Out(n).fields.entry_id
        before == ScanFrom(<<>>, SubSeq(Consumed, 1, n - 2))
        e1 == EntryOf(entries, id)
        e2 == EntryOf(ScanFrom(<<>>, LastTwoSwapped), id)
    IN  /\ e1.id = e2.id
        /\ SameMultiValued(e1, e2)
        /\ ~HasId(before, id) =>
             /\ e1.name = Out(n - 1).fields.name
             /\ e1.specialty = Out(n - 1).fields.specialty
             /\ e1.sourceFile = Out(n - 1).fields.source_value
             /\ e2.name = Out(n).fields.name
             /\ e2.specialty = Out(n).fields.specialty
             /\ e2.sourceFile = Out(n).fields.source_value

\* Two rows with the same id, different names and different contacts, the
\* first of which created the entry.
C3_Witness ==
  /\ LastTwoShareId
  /\ Out(Len(table) - 1).fields.name # Out(Len(table)).fields.name
  /\ ToSet(Out(Len(table) - 1).fields.contacts)
       # ToSet(Out(Len(table)).fields.contacts)
  /\ Cardinality(RowsOf(Out(Len(table)).fields.entry_id)) = 2

(***************************************************************************)
(* C4                                                                      *)
(***************************************************************************)
Separators == {"-", ","} \cup Whitespace

\* keyword occurs at some position of text.
Occurs(text, keyword) ==
  \E i \in 1..(Len(text) - Len(keyword) + 1) :
    SubSeq(text, i, i + Len(keyword) - 1) = keyword

\* The five rules of the classifier, stated on the name itself.
NotEmpty(name) == name # ""

NotPlaceholder(name) ==
  lower(normalize_whitespace(name)) \notin {"doctor name", "name", "(blank)"}

NoBlockKeyword(name) ==
  LET lowered == lower(normalize_whitespace(name))
  IN  \A keyword \in BLOCK_KEYWORDS : ~Occurs(lowered, keyword)

NoDigit(name) == Chars(normalize_whitespace(name)) \cap Digits = {}

\* A token starts at every non-separator that begins the string or follows a
\* separator.
TokenStarts(t) ==
  { i \in 1..Len(t) :
      /\ CharAt(t, i) \notin Separators
      /\ (i = 1 \/ CharAt(t, i - 1) \in Separators) }

AtLeastTwoTokens(name) ==
  Cardinality(TokenStarts(normalize_whitespace(name))) >= 2

FiveRules(name) ==
  /\ NotEmpty(name)
  /\ NotPlaceholder(name)
  /\ NoBlockKeyword(name)
  /\ NoDigit(name)
  /\ AtLeastTwoTokens(name)

\* The names the data rows hold, normalized, and whether the five rules hold
\* of each; computed once.
RowNames ==
  { normalize_whitespace(d[1].value) : d \in DataRows \cup ShortRows }

RowNameRules == [name \in RowNames |-> FiveRules(name)]

FiveRulesOfRowName(name) == name \in RowNames /\ RowNameRules[name]

\* C4: looks_like_doctor(name) is true exactly when the five rules hold of
\* name, and every name stored in an entry or written to the output satisfies
\* the five rules.
C4_FiveRules ==
  /\ call.fn = "looks_like_doctor" => (call.ret <=> FiveRules(call.arg))
  /\ \A k \in 1..Len(entries) : FiveRulesOfRowName(entries[k].name)
  /\ \A i \in 1..Len(table) :
       Out(i).skipped <=>
         \/ idx.name > Len(table[i])
         \/ table[i][idx.name].null
         \/ ~FiveRulesOfRowName(normalize_whitespace(table[i][idx.name].value))
  /\ pc = "done" =>
       \A k \in 1..Len(output.doctors) :
         FiveRulesOfRowName(output.doctors[k].name)

\* A name accepted although it is not whitespace-normalized.
C4_Witness ==
  /\ call.fn = "looks_like_doctor"
  /\ call.ret
  /\ call.arg # normalize_whitespace(call.arg)

(***************************************************************************)
(* C5                                                                      *)
(***************************************************************************)
\* The pairs of SPECIALTY_KEYWORDS whose keyword occurs somewhere in text.
Hits(text) ==
  {k \in 1..Len(SPECIALTY_KEYWORDS) : Occurs(text, SPECIALTY_KEYWORDS[k][1])}

\* C5: infer_specialty returns the label of the first declared pair whose
\* keyword occurs in the space-joined lowercased non-empty fields, wherever it
\* occurs; it returns "General Practice" exactly when no keyword occurs; text
\* with both "cardio" and "derma" gives "Cardiology".
C5_FirstDeclaredKeywordWins ==
  call.fn = "infer_specialty" =>
    LET text == Join(LoweredFields(call.arg), " ")
    IN  /\ Hits(text) # {} =>
             call.ret = SPECIALTY_KEYWORDS[Least(Hits(text))][2]
        /\ Hits(text) = {} <=> call.ret = "General Practice"
        /\ {1, 2} \subseteq Hits(text) => call.ret = "Cardiology"

\* A call whose text has "derma" before "cardio" and returns "Cardiology".
C5_Witness ==
  /\ call.fn = "infer_specialty"
  /\ call.arg = <<"derma then cardio", "">>
  /\ call.ret = "Cardiology"

(***************************************************************************)
(* C6                                                                      *)
(***************************************************************************)
\* C6: no element of the list returned by split_multi_value is the empty
\* string.
C6_NoEmptyElement ==
  call.fn = "split_multi_value" =>
    \A k \in 1..Len(call.ret) : call.ret[k] # ""

(***************************************************************************)
(* C7                                                                      *)
(***************************************************************************)
\* C7: the dict, and the list written from it, holds exactly one entry for
\* each id of an accepted row, in the order of the first accepted row of each
\* id; merges leave that order alone.
C7_OnePerIdInFirstInsertionOrder ==
  /\ \A j, k \in 1..Len(entries) : entries[j].id = entries[k].id => j = k
  /\ \A i \in 1..Len(table) :
       ~Out(i).skipped => HasId(entries, Out(i).fields.entry_id)
  /\ \A k \in 1..Len(entries) : RowsOf(entries[k].id) # {}
  /\ \A j, k \in 1..Len(entries) :
       j < k => Least(RowsOf(entries[j].id)) < Least(RowsOf(entries[k].id))
  /\ pc = "done" => output.doctors = entries

\* Output of a run that inserted two ids and then merged a row into the
\* first of them.
C7_Witness ==
  /\ pc = "done"
  /\ Len(output.doctors) >= 2
  /\ \E i \in RowsOf(output.doctors[1].id) :
       i > Least(RowsOf(output.doctors[2].id))

(***************************************************************************)
(* C8                                                                      *)
(***************************************************************************)
\* C8: when the input file is absent, or a required header column is missing,
\* no row is ever processed, the output file is never written and no summary
\* is printed; an absent file stops the run before the table is loaded.
C8_FatalErrorYieldsNoOutput ==
  (~fileExists \/ ~HasRequiredColumns(headers)) =>
    /\ pc \in {"start", "load", "aborted", "returned"}
    /\ ~fileExists => pc # "load"
    /\ table = <<>>
    /\ entries = <<>>
    /\ output = NoFile
    /\ stdout = <<>>

\* A run aborted by a missing header column.
C8_Witness ==
  /\ pc = "aborted"
  /\ error = "ValueError"
  /\ fileExists
  /\ ~HasRequiredColumns(headers)

(***************************************************************************)
(* C9                                                                      *)
(***************************************************************************)
\* C9 as stated: the id of every entry of the output is the hash of the
\* entry's lowercased name and the first element of its registrationNumbers,
\* or its lowercased sourceFile when registrationNumbers is empty.
C9_IdFromStoredFields ==
  pc = "done" =>
    \A k \in 1..Len(output.doctors) :
      LET e == output.doctors[k]
      IN  e.id = Hash(lower(e.name) \o "|" \o
                        (IF e.registrationNumbers # <<>>
                           THEN e.registrationNumbers[1]
                           ELSE lower(e.sourceFile)))

\* C9 amended: the id of every entry of the output is the hash of the entry's
\* lowercased name and the first registration number of the row that created
\* the entry, or the entry's lowercased sourceFile when that row had none.
C9_IdFromCreatingRow ==
  pc = "done" =>
    \A k \in 1..Len(output.doctors) :
      LET e == output.doctors[k]
          regs == FirstFields(e.id).reg_numbers
      IN  e.id = Hash(lower(e.name) \o "|" \o
                        (IF regs # <<>> THEN regs[1] ELSE lower(e.sourceFile)))

\* Output with an entry whose name has capitals and whose first stored
\* registration number is not the one its id was computed from.
C9_Witness ==
  /\ pc = "done"
  /\ \E k \in 1..Len(output.doctors) :
       LET e == output.doctors[k]
       IN  /\ e.name # lower(e.name)
           /\ e.registrationNumbers # <<>>
           /\ FirstFields(e.id).reg_numbers # <<>>
           /\ e.registrationNumbers[1] # FirstFields(e.id).reg_numbers[1]

(***************************************************************************)
(* C10                                                                     *)
(***************************************************************************)
\* The non-empty fragments of the raw text between runs of ';' or newline,
\* each stripped and whitespace-normalized, in order.
RECURSIVE Normalized(_)
Normalized(parts) ==
  IF parts = <<>> THEN <<>>
  ELSE <<normalize_whitespace(Strip(Head(parts), Whitespace \cup {";"}))>>
         \o Normalized(Tail(parts))

Fragments(raw) == NonEmpty(Normalized(ReSplit(raw, {";", "\n"})))

\* C10: for every accepted row the contacts, credentials and registration
\* numbers computed are the fragments of the raw text of the row's cells.
C10_FragmentsOfRawCell ==
  \A i \in 1..Len(table) :
    ~Out(i).skipped =>
      /\ Out(i).fields.contacts = Fragments(CellValue(table[i], idx.contact))
      /\ Out(i).fields.credentials = Fragments(CellValue(table[i], idx.cred))
      /\ Out(i).fields.reg_numbers = Fragments(CellValue(table[i], idx.reg))

=============================================================================
